---- MODULE Spec2Model ----
(***************************************************************************)
(* django-flowr: the DCCGraph (directed, connected, cyclic graph) stored   *)
(* in the database, and the rule-validated Flow / State machine on top of  *)
(* it (flowr/models.py).  The database tables are the state; every model   *)
(* method is one action, next_state is split at its two callbacks.         *)
(***************************************************************************)
EXTENDS Integers, FiniteSets, Sequences, TLC

\* ------------------------------------------------------------------------
\* Bounds of the model
MaxNodes == 4          \* Node rows ever created (AutoField ids 1..MaxNodes)
MaxEdges == 4          \* rows of the children table
MaxSteps == 3          \* on_leave callbacks fired (successful next_state calls)
MaxStates == 1         \* State rows ever created while the flow is built
MaxRunStates == 2      \* State rows ever created on the built flow
MaxRuleKids == 2       \* length of the children list of a drawn Rule class

NULL == 0
NoData == [node |-> NULL, val |-> NULL]             \* no data row for the node
NoState == [flow |-> NULL, current_node |-> NULL]   \* no State row with the id
NoChoice == "None"                                  \* next_state(rule=None)
NodeIds == 1..MaxNodes
GraphIds == {1, 2}
FlowIds == {1, 2}
StateIds == 1..MaxRunStates

VARIABLES
    graphs,      \* DCCGraph rows: set of graph ids
    root,        \* DCCGraph.root: graph id -> node id or NULL
    nodes,       \* Node rows: set of node ids
    graph,       \* Node.graph: node id -> graph id (NULL when no such row)
    parents,     \* Node.parents m2m rows <<from, to>>: to is a parent of from
    children,    \* Node.children m2m rows <<from, to>>: to is a child of from
    data,        \* BaseNodeData rows keyed by their node: node id -> payload or NoData
    flows,       \* Flow rows: flow id -> state_graph id or NULL
    states,      \* State rows: state id -> [flow, current_node] or NoState
    done_enter,  \* rules whose on_enter fired, in order
    done_leave,  \* rules whose on_leave fired, in order
    pc,          \* position inside a running next_state call
    seen,        \* what the callbacks of the running/last next_state observed
    edited,      \* the flow graph was changed after the first State.start
    nextId,      \* the next id the Node table hands out
    nextStateId, \* the next id the State table hands out
    last         \* the last call: operation, receiver, error, result

vars == <<graphs, root, nodes, graph, parents, children, data, flows, states,
          done_enter, done_leave, pc, seen, edited, nextId, nextStateId, last>>

tableVars == <<graphs, root, nodes, graph, parents, children, data, flows, states>>
flowVars == <<done_enter, done_leave, pc, seen, edited>>

\* ------------------------------------------------------------------------
\* The tables as one value, for the methods that write several rows in turn

Tables == [graphs |-> graphs, root |-> root, nodes |-> nodes, graph |-> graph,
           parents |-> parents, children |-> children, data |-> data,
           flows |-> flows, states |-> states]

Commit(t) ==
    /\ graphs' = t.graphs
    /\ root' = t.root
    /\ nodes' = t.nodes
    /\ graph' = t.graph
    /\ parents' = t.parents
    /\ children' = t.children
    /\ data' = t.data
    /\ flows' = t.flows
    /\ states' = t.states

Load(t) ==
    /\ graphs = t.graphs
    /\ root = t.root
    /\ nodes = t.nodes
    /\ graph = t.graph
    /\ parents = t.parents
    /\ children = t.children
    /\ data = t.data
    /\ flows = t.flows
    /\ states = t.states

Idle == [phase |-> "idle", state |-> NULL, next_node |-> NULL]

Result(op, n, err, ret) == [op |-> op, node |-> n, err |-> err, ret |-> ret]


\* ------------------------------------------------------------------------
\* Queries on the tables

children_all(n) == {c \in nodes : <<n, c>> \in children}

parents_all(n) == {p \in nodes : <<n, p>> \in parents}

is_root(n) == n = root[graph[n]]

RECURSIVE depth_ascend(_, _, _)
RECURSIVE ascend_loop(_, _, _)
ascend_loop(todo, visited, limit) ==
    IF todo = {} THEN visited
    ELSE LET parent == CHOOSE p \in todo : \A q \in todo : p <= q
             v1 == IF limit /\ is_root(parent) THEN visited \cup {parent} ELSE visited
             v2 == IF parent \notin v1
                   THEN depth_ascend(parent, v1 \cup {parent}, limit)
                   ELSE v1
         IN ascend_loop(todo \ {parent}, v2, limit)

depth_ascend(node, visited, limit) == ascend_loop(parents_all(node), visited, limit)

ancestors(n) == depth_ascend(n, {}, FALSE) \ {n}

\* ancestors_root without the early return on the root
ancestors_root_unchecked(n) == depth_ascend(n, {}, TRUE) \ {n}

ancestors_root(n) == IF is_root(n) THEN {} ELSE depth_ascend(n, {}, TRUE) \ {n}

RECURSIVE depth_descend(_, _, _)
RECURSIVE descend_loop(_, _, _)
descend_loop(todo, visited, limit) ==
    IF todo = {} THEN visited
    ELSE LET child == CHOOSE c \in todo : \A d \in todo : c <= d
             v1 == IF limit /\ is_root(child) THEN visited \cup {child} ELSE visited
             v2 == IF child \notin v1
                   THEN depth_descend(child, v1 \cup {child}, limit)
                   ELSE v1
         IN descend_loop(todo \ {child}, v2, limit)

depth_descend(node, visited, limit) == descend_loop(children_all(node), visited, limit)

\* descendents that does not take the node itself out of the visited set
descendents_keeps_self(n) == depth_descend(n, {}, FALSE)

descendents(n) == depth_descend(n, {}, FALSE) \ {n}

\* descendents_root that walks on through the root
descendents_root_unbounded(n) == depth_descend(n, {}, FALSE) \ {n}

\* descendents_root that stops before the root and leaves it out
descendents_root_without_root(n) == depth_descend(n, {}, TRUE) \ {n, root[graph[n]]}

\* descendents_root that does not take the node itself out of the visited set
descendents_root_keeps_self(n) == depth_descend(n, {}, TRUE)

descendents_root(n) == depth_descend(n, {}, TRUE) \ {n}

can_remove(n) ==
    IF Cardinality(children_all(n)) = 0 THEN TRUE
    ELSE children_all(n) \subseteq ancestors_root(n)

prune_targets(n) == descendents_root(n) \ {root[graph[n]]}

prune_list(n) == prune_targets(n) \cup {n}

\* ------------------------------------------------------------------------
\* Writes to the tables

\* Model.delete() of a Node row: every foreign key is on_delete=CASCADE, so
\* the m2m rows naming the node, its data row, the States standing on it and
\* a DCCGraph whose root it is (with that graph's Nodes, Flow and States) go
\* with it.
delete(t, n) ==
    LET gdel == {g \in t.graphs : t.root[g] = n}
        ndel == {n} \cup {m \in t.nodes : t.graph[m] \in gdel}
        fdel == {f \in FlowIds : t.flows[f] # NULL /\ t.flows[f] \in gdel}
        sdel == {s \in StateIds : t.states[s].flow # NULL
                    /\ (t.states[s].flow \in fdel \/ t.states[s].current_node \in ndel)}
    IN [graphs |-> t.graphs \ gdel,
        root |-> [g \in GraphIds |-> IF g \in gdel THEN NULL ELSE t.root[g]],
        nodes |-> t.nodes \ ndel,
        graph |-> [m \in NodeIds |-> IF m \in ndel THEN NULL ELSE t.graph[m]],
        parents |-> {e \in t.parents : e[1] \notin ndel /\ e[2] \notin ndel},
        children |-> {e \in t.children : e[1] \notin ndel /\ e[2] \notin ndel},
        data |-> [m \in NodeIds |-> IF m \in ndel THEN NoData ELSE t.data[m]],
        flows |-> [f \in FlowIds |-> IF f \in fdel THEN NULL ELSE t.flows[f]],
        states |-> [s \in StateIds |-> IF s \in sdel THEN NoState ELSE t.states[s]]]

RECURSIVE delete_all(_, _)
delete_all(t, targets) ==
    IF targets = {} THEN t
    ELSE LET node == CHOOSE c \in targets : \A d \in targets : c <= d
         IN delete_all(delete(t, node), targets \ {node})

\* Node.add_child on the tables t: a new Node row with the id and its data
\* row, linked under p
add_child_in(t, id, p, kw) ==
    [t EXCEPT !.nodes = @ \cup {id},
              !.graph = [@ EXCEPT ![id] = t.graph[p]],
              !.data = [@ EXCEPT ![id] = [node |-> id, val |-> kw]],
              !.parents = @ \cup {<<id, p>>},
              !.children = @ \cup {<<p, id>>}]

\* add_child that also links the new node's parent under the new node
add_child_tables_linked_back(p, kw) ==
    [add_child_in(Tables, nextId, p, kw) EXCEPT
         !.parents = @ \cup {<<p, nextId>>},
         !.children = @ \cup {<<nextId, p>>}]

\* Node.add_child: a new Node row and its data row, linked under p
add_child_tables(p, kw) == add_child_in(Tables, nextId, p, kw)

\* connect_child that writes the children row and no parents row
connect_child_tables_one_way(p, c) ==
    [Tables EXCEPT !.children = @ \cup {<<p, c>>}]

\* Node.connect_child: the two m2m rows of the edge p -> c
connect_child_tables(p, c) ==
    [Tables EXCEPT !.parents = @ \cup {<<c, p>>},
                   !.children = @ \cup {<<p, c>>}]

\* Node.remove after its can_remove check
remove_tables(n) ==
    delete([Tables EXCEPT !.parents = @ \ {<<n, n>>}], n)

\* prune that deletes the node's direct children and leaves their descendents
prune_tables_children_only(n) ==
    LET t1 == delete_all(Tables, children_all(n) \ {n, root[graph[n]]})
        ps == {p \in t1.nodes : <<n, p>> \in t1.parents}
        t2 == [t1 EXCEPT !.children = @ \ {<<p, n>> : p \in ps}]
    IN delete(t2, n)

\* Node.prune
prune_tables(n) ==
    LET t1 == delete_all(Tables, prune_targets(n))
        ps == {p \in t1.nodes : <<n, p>> \in t1.parents}
        t2 == [t1 EXCEPT !.children = @ \ {<<p, n>> : p \in ps}]
    IN delete(t2, n)

\* ------------------------------------------------------------------------
\* Operations on a graph

add_child(p, kw) ==
    /\ pc.phase = "idle"
    /\ nextId <= MaxNodes
    /\ Commit(add_child_tables(p, kw))
    /\ nextId' = nextId + 1
    /\ last' = Result("add_child", p, "", nextId)
    /\ UNCHANGED <<flowVars, nextStateId>>

\* connect_child without the check of the two nodes' graphs
connect_child_any_graph(p, c) ==
    /\ pc.phase = "idle"
    /\ <<p, c>> \in children \/ Cardinality(children) < MaxEdges
    /\ last' = Result("connect_child", p, "", c)
    /\ Commit(connect_child_tables(p, c))
    /\ UNCHANGED <<flowVars, nextId, nextStateId>>

\* Node.connect_child
connect_child(p, c) ==
    /\ pc.phase = "idle"
    /\ <<p, c>> \in children \/ Cardinality(children) < MaxEdges
    /\ IF graph[c] # graph[p]
       THEN /\ last' = Result("connect_child", p, "CrossGraphConnection", c)
            /\ UNCHANGED tableVars
       ELSE /\ last' = Result("connect_child", p, "", c)
            /\ Commit(connect_child_tables(p, c))
    /\ UNCHANGED <<flowVars, nextId, nextStateId>>

\* remove without its can_remove check
remove_unchecked(n) ==
    /\ pc.phase = "idle"
    /\ last' = Result("remove", n, "", data[n])
    /\ Commit(remove_tables(n))
    /\ UNCHANGED <<flowVars, nextId, nextStateId>>

remove(n) ==
    /\ pc.phase = "idle"
    /\ IF ~can_remove(n)
       THEN /\ last' = Result("remove", n, "UnremovableNode", NULL)
            /\ UNCHANGED tableVars
       ELSE /\ last' = Result("remove", n, "", data[n])
            /\ Commit(remove_tables(n))
    /\ UNCHANGED <<flowVars, nextId, nextStateId>>

prune(n) ==
    /\ pc.phase = "idle"
    /\ last' = Result("prune", n, "", {data[m] : m \in prune_targets(n)} \cup {data[n]})
    /\ Commit(prune_tables(n))
    /\ UNCHANGED <<flowVars, nextId, nextStateId>>

call_can_remove(n) ==
    /\ pc.phase = "idle"
    /\ last' = Result("can_remove", n, "", can_remove(n))
    /\ UNCHANGED <<tableVars, flowVars, nextId, nextStateId>>

call_prune_list(n) ==
    /\ pc.phase = "idle"
    /\ last' = Result("prune_list", n, "", prune_list(n))
    /\ UNCHANGED <<tableVars, flowVars, nextId, nextStateId>>

\* ------------------------------------------------------------------------
\* A graph of Label nodes

\* DCCGraph.factory(Label, ...): the graph, its root Node and the root's data
factory_tables(g, kw) ==
    [graphs |-> {g},
     root |-> [h \in GraphIds |-> IF h = g THEN 1 ELSE NULL],
     nodes |-> {1},
     graph |-> [m \in NodeIds |-> IF m = 1 THEN g ELSE NULL],
     parents |-> {},
     children |-> {},
     data |-> [m \in NodeIds |-> IF m = 1 THEN [node |-> 1, val |-> kw] ELSE NoData],
     flows |-> [f \in FlowIds |-> NULL],
     states |-> [s \in StateIds |-> NoState]]

InitGraph ==
    /\ Load(factory_tables(1, "Label"))
    /\ nextId = 2
    /\ nextStateId = 1
    /\ done_enter = <<>>
    /\ done_leave = <<>>
    /\ pc = Idle
    /\ seen = <<>>
    /\ edited = FALSE
    /\ last = Result("init", NULL, "", NULL)

NextGraph ==
    \/ \E p \in nodes : add_child(p, "Label")
    \/ \E p \in nodes, c \in nodes : connect_child(p, c)
    \/ \E n \in nodes : remove(n)
    \/ \E n \in nodes : prune(n)
    \/ \E n \in nodes : call_can_remove(n)
    \/ \E n \in nodes : call_prune_list(n)

SpecGraph == InitGraph /\ [][NextGraph]_vars

\* ------------------------------------------------------------------------
\* add_child with keyword arguments the payload class does not take

\* Node.add_child when data_class.objects.create raises on the keyword
\* arguments: add_child runs in no transaction, so the Node row that
\* Node.objects.create wrote just before stays, without data row and edges
add_child_fails(p) ==
    /\ pc.phase = "idle"
    /\ nextId <= MaxNodes
    /\ nodes' = nodes \cup {nextId}
    /\ graph' = [graph EXCEPT ![nextId] = graph[p]]
    /\ nextId' = nextId + 1
    /\ last' = Result("add_child", p, "InvalidPayload", nextId)
    /\ UNCHANGED <<graphs, root, parents, children, data, flows, states,
                   flowVars, nextStateId>>

NextAddChild ==
    \/ \E p \in nodes : add_child(p, "Label")
    \/ \E p \in nodes : add_child_fails(p)
    \/ \E p \in nodes, c \in nodes : connect_child(p, c)

SpecAddChild == InitGraph /\ [][NextAddChild]_vars

\* ------------------------------------------------------------------------
\* The traversals step by step: one frame of _depth_ascend / _depth_descend
\* per call, one iteration of its for loop per step. While a traversal runs
\* last.ret holds its frames (the node and the rows of its query not yet
\* iterated) and the visited set the frames share.

WalkOps == {"ancestors", "ancestors_root", "descendents", "descendents_root",
            "can_remove", "prune_list"}

\* the traversal a method starts: over the parents or the children rows,
\* with or without the limit at the root
walk_up(op) == op \in {"ancestors", "ancestors_root", "can_remove"}
walk_limit(op) == op \in {"ancestors_root", "descendents_root", "can_remove", "prune_list"}

\* node.parents.all() / node.children.all()
walk_rows(op, n) == IF walk_up(op) THEN parents_all(n) ELSE children_all(n)

\* what the method makes of the visited set when the traversal has returned
walk_result(op, n, visited) ==
    CASE op = "can_remove" -> children_all(n) \subseteq (visited \ {n})
      [] op = "prune_list" -> ((visited \ {n}) \ {root[graph[n]]}) \cup {n}
      [] OTHER -> visited \ {n}

\* the methods' returns before any traversal: can_remove on a node without
\* children, ancestors_root (also inside can_remove) on the root
walk_skipped(op, n) ==
    \/ op = "can_remove" /\ Cardinality(children_all(n)) = 0
    \/ op \in {"ancestors_root", "can_remove"} /\ is_root(n)

walk_call(op, n) ==
    /\ pc.phase = "idle"
    /\ IF walk_skipped(op, n)
       THEN /\ last' = Result(op, n, "",
                         IF op = "can_remove"
                         THEN Cardinality(children_all(n)) = 0 ELSE {})
            /\ UNCHANGED pc
       ELSE /\ last' = Result(op, n, "running",
                         [frames |-> <<[node |-> n, todo |-> walk_rows(op, n)]>>,
                          visited |-> {}])
            /\ pc' = [Idle EXCEPT !.phase = "depth"]
    /\ UNCHANGED <<tableVars, done_enter, done_leave, seen, edited, nextId, nextStateId>>

\* the for loop that recurses into a row whether or not it was visited,
\* until the interpreter's recursion limit
depth_loop_unguarded ==
    /\ pc.phase = "depth"
    /\ LET w == last.ret
           d == Len(w.frames)
           top == w.frames[d]
       IN /\ top.todo # {}
          /\ d <= MaxNodes + 1
          /\ \E c \in top.todo :
                LET rest == [w.frames EXCEPT ![d].todo = @ \ {c}]
                IN last' = [last EXCEPT !.ret =
                       [frames |-> Append(rest, [node |-> c,
                                                 todo |-> walk_rows(last.op, c)]),
                        visited |-> w.visited \cup {c}]]
    /\ UNCHANGED <<tableVars, flowVars, nextId, nextStateId>>

\* one iteration of the for loop of the innermost frame
depth_loop ==
    /\ pc.phase = "depth"
    /\ LET w == last.ret
           d == Len(w.frames)
           top == w.frames[d]
       IN /\ top.todo # {}
          /\ \E c \in top.todo :
                LET v1 == IF walk_limit(last.op) /\ is_root(c)
                          THEN w.visited \cup {c} ELSE w.visited
                    rest == [w.frames EXCEPT ![d].todo = @ \ {c}]
                IN last' = [last EXCEPT !.ret =
                       IF c \notin v1
                       THEN [frames |-> Append(rest, [node |-> c,
                                                      todo |-> walk_rows(last.op, c)]),
                             visited |-> v1 \cup {c}]
                       ELSE [frames |-> rest, visited |-> v1]]
    /\ UNCHANGED <<tableVars, flowVars, nextId, nextStateId>>

\* the for loop of the innermost frame is over: back in the caller's loop,
\* or in the method, which returns its result
depth_return ==
    /\ pc.phase = "depth"
    /\ LET w == last.ret
           d == Len(w.frames)
       IN /\ w.frames[d].todo = {}
          /\ IF d > 1
             THEN /\ last' = [last EXCEPT !.ret.frames = SubSeq(w.frames, 1, d - 1)]
                  /\ UNCHANGED pc
             ELSE /\ last' = Result(last.op, last.node, "",
                                    walk_result(last.op, last.node, w.visited))
                  /\ pc' = Idle
    /\ UNCHANGED <<tableVars, done_enter, done_leave, seen, edited, nextId, nextStateId>>

\* a graph as add_child and connect_child build it: nodes 1..k, each but the
\* root created under an older node, and the edges of connect_child calls
built_tables(k, made_under, connected) ==
    LET E == {<<made_under[n], n>> : n \in 2..k} \cup {connected[i] : i \in DOMAIN connected}
    IN [factory_tables(1, "Label") EXCEPT
           !.nodes = 1..k,
           !.graph = [m \in NodeIds |-> IF m \in 1..k THEN 1 ELSE NULL],
           !.data = [m \in NodeIds |-> IF m \in 1..k
                                         THEN [node |-> m, val |-> "Label"]
                                         ELSE NoData],
           !.children = E,
           !.parents = {<<e[2], e[1]>> : e \in E}]

InitWalk ==
    /\ \E k \in 1..MaxNodes :
         \E made_under \in [2..k -> 1..k] :
           \E connected \in [1..(MaxEdges - (k - 1)) -> (1..k) \X (1..k)] :
              /\ \A n \in 2..k : made_under[n] < n
              /\ Load(built_tables(k, made_under, connected))
              /\ nextId = k + 1
    /\ nextStateId = 1
    /\ done_enter = <<>>
    /\ done_leave = <<>>
    /\ pc = Idle
    /\ seen = <<>>
    /\ edited = FALSE
    /\ last = Result("init", NULL, "", NULL)

NextWalk ==
    \/ \E op \in WalkOps, n \in nodes : walk_call(op, n)
    \/ depth_loop
    \/ depth_return

SpecWalk == InitWalk /\ [][NextWalk]_vars

\* a running call goes on: the process that called the method executes it
SpecWalkFair == SpecWalk /\ WF_vars(depth_loop) /\ WF_vars(depth_return)

\* ------------------------------------------------------------------------
\* Two graphs of Label nodes, side by side in the same tables

\* a second DCCGraph.factory(Label, ...): graph g with root Node n, added to
\* the tables t
factory_more_tables(t, g, n, kw) ==
    [t EXCEPT !.graphs = @ \cup {g},
              !.root = [@ EXCEPT ![g] = n],
              !.nodes = @ \cup {n},
              !.graph = [@ EXCEPT ![n] = g],
              !.data = [@ EXCEPT ![n] = [node |-> n, val |-> kw]]]

InitTwoGraphs ==
    /\ Load(factory_more_tables(factory_tables(1, "Label"), 2, 2, "Label"))
    /\ nextId = 3
    /\ nextStateId = 1
    /\ done_enter = <<>>
    /\ done_leave = <<>>
    /\ pc = Idle
    /\ seen = <<>>
    /\ edited = FALSE
    /\ last = Result("init", NULL, "", NULL)

NextTwoGraphs ==
    \/ \E p \in nodes : add_child(p, "Label")
    \/ \E p \in nodes, c \in nodes : connect_child(p, c)

SpecTwoGraphs == InitTwoGraphs /\ [][NextTwoGraphs]_vars

\* ------------------------------------------------------------------------
\* Graphs built from a nested description

\* the tables before any row is written
no_tables ==
    [graphs |-> {},
     root |-> [h \in GraphIds |-> NULL],
     nodes |-> {},
     graph |-> [m \in NodeIds |-> NULL],
     parents |-> {},
     children |-> {},
     data |-> [m \in NodeIds |-> NoData],
     flows |-> [f \in FlowIds |-> NULL],
     states |-> [s \in StateIds |-> NoState]]

\* the names given to the Label payloads of a description
LabelNames == {"A", "B"}

\* the nested descriptions with n entries: lists of pairs of the arguments
\* of an entry and the list of its children
RECURSIVE Descriptions(_)
Descriptions(n) ==
    IF n = 0 THEN {<<>>}
    ELSE UNION {{<<<<kw, sub>>>> \o rest :
                    kw \in LabelNames, sub \in Descriptions(k - 1), rest \in Descriptions(n - k)}
                : k \in 1..n}

\* the number of entries of a nested description
RECURSIVE entries(_)
entries(list) ==
    IF list = <<>> THEN 0 ELSE 1 + entries(Head(list)[2]) + entries(Tail(list))

RECURSIVE depth_create_flat(_, _, _, _)
RECURSIVE depth_create(_, _, _, _)
RECURSIVE create_each(_, _, _, _)

\* the loop over a list of entries: _depth_create of each under the node
create_each(t, id, node, list) ==
    IF list = <<>> THEN [t |-> t, id |-> id]
    ELSE LET done == depth_create(t, id, node, Head(list))
         IN create_each(done.t, done.id, node, Tail(list))

\* _depth_create that hangs the grandchildren under the node, not the child
depth_create_flat(t, id, node, entry) ==
    create_each(add_child_in(t, id, node, entry[1]), id + 1, node, entry[2])

\* DCCGraph._depth_create: add_child of the entry, then its grandchildren
\* under the child
depth_create(t, id, node, entry) ==
    create_each(add_child_in(t, id, node, entry[1]), id + 1, id, entry[2])

\* DCCGraph.factory_from_graph, in one transaction
factory_from_graph(g, root_args, list) ==
    /\ pc.phase = "idle"
    /\ g \notin graphs
    /\ nextId + entries(list) <= MaxNodes
    /\ LET built == create_each(factory_more_tables(Tables, g, nextId, root_args),
                                nextId + 1, nextId, list)
       IN /\ Commit(built.t)
          /\ nextId' = built.id
    /\ last' = Result("factory_from_graph", g, "", [root_args |-> root_args, children |-> list])
    /\ UNCHANGED <<flowVars, nextStateId>>

InitTree ==
    /\ Load(no_tables)
    /\ nextId = 1
    /\ nextStateId = 1
    /\ done_enter = <<>>
    /\ done_leave = <<>>
    /\ pc = Idle
    /\ seen = <<>>
    /\ edited = FALSE
    /\ last = Result("init", NULL, "", NULL)

NextTree ==
    \E g \in GraphIds, root_args \in LabelNames, n \in 0..(MaxNodes - 1) :
        \E list \in Descriptions(n) : factory_from_graph(g, root_args, list)

SpecTree == InitTree /\ [][NextTree]_vars

\* ------------------------------------------------------------------------
\* DCCGraph.factory write by write, as a reader of the tables sees it; pc
\* keeps the graph (state) and the Node (next_node) the factory works on

\* DCCGraph.objects.create(data_content_type=...): the graph row, no root yet
factory_create_graph(g, kw) ==
    /\ pc.phase = "idle"
    /\ g \notin graphs
    /\ nextId <= MaxNodes
    /\ graphs' = graphs \cup {g}
    /\ root' = [root EXCEPT ![g] = NULL]
    /\ pc' = [phase |-> "factory_node", state |-> g, next_node |-> NULL]
    /\ last' = Result("factory", g, "running", kw)
    /\ UNCHANGED <<nodes, graph, parents, children, data, flows, states,
                   done_enter, done_leave, seen, edited, nextId, nextStateId>>

\* a factory that points the graph at its root as soon as the Node exists
factory_create_node_rooted ==
    /\ pc.phase = "factory_node"
    /\ nodes' = nodes \cup {nextId}
    /\ graph' = [graph EXCEPT ![nextId] = pc.state]
    /\ root' = [root EXCEPT ![pc.state] = nextId]
    /\ nextId' = nextId + 1
    /\ pc' = [pc EXCEPT !.phase = "factory_data", !.next_node = nextId]
    /\ UNCHANGED <<graphs, parents, children, data, flows, states,
                   done_enter, done_leave, seen, edited, nextStateId, last>>

\* Node.objects.create(graph=graph)
factory_create_node ==
    /\ pc.phase = "factory_node"
    /\ nodes' = nodes \cup {nextId}
    /\ graph' = [graph EXCEPT ![nextId] = pc.state]
    /\ nextId' = nextId + 1
    /\ pc' = [pc EXCEPT !.phase = "factory_data", !.next_node = nextId]
    /\ UNCHANGED <<graphs, root, parents, children, data, flows, states,
                   done_enter, done_leave, seen, edited, nextStateId, last>>

\* data_class.objects.create(node=node, **kwargs)
factory_create_data ==
    /\ pc.phase = "factory_data"
    /\ data' = [data EXCEPT ![pc.next_node] = [node |-> pc.next_node, val |-> last.ret]]
    /\ pc' = [pc EXCEPT !.phase = "factory_save"]
    /\ UNCHANGED <<graphs, root, nodes, graph, parents, children, flows, states,
                   done_enter, done_leave, seen, edited, nextId, nextStateId, last>>

\* data_class.objects.create raises on the keyword arguments:
\* transaction.atomic takes the graph row and the Node row back
factory_create_data_fails ==
    /\ pc.phase = "factory_data"
    /\ graphs' = graphs \ {pc.state}
    /\ nodes' = nodes \ {pc.next_node}
    /\ graph' = [graph EXCEPT ![pc.next_node] = NULL]
    /\ pc' = Idle
    /\ last' = Result("factory", pc.state, "InvalidPayload", last.ret)
    /\ UNCHANGED <<root, parents, children, data, flows, states,
                   done_enter, done_leave, seen, edited, nextId, nextStateId>>

\* graph.root = node; graph.save()
factory_save_root ==
    /\ pc.phase = "factory_save"
    /\ root' = [root EXCEPT ![pc.state] = pc.next_node]
    /\ pc' = Idle
    /\ last' = Result("factory", pc.state, "", last.ret)
    /\ UNCHANGED <<graphs, nodes, graph, parents, children, data, flows, states,
                   done_enter, done_leave, seen, edited, nextId, nextStateId>>

NextFactory ==
    \/ \E g \in GraphIds, kw \in LabelNames : factory_create_graph(g, kw)
    \/ factory_create_node
    \/ factory_create_data
    \/ factory_create_data_fails
    \/ factory_save_root
    \/ \E p \in nodes : add_child(p, "Label")

SpecFactory == InitTree /\ [][NextFactory]_vars

\* ------------------------------------------------------------------------
\* Queries of a DCCGraph, with two graphs in the same tables

\* the rows of a query, in the order of their ids
RECURSIVE rows(_)
rows(S) ==
    IF S = {} THEN <<>>
    ELSE LET first == CHOOSE a \in S : \A b \in S : a <= b
         IN <<first>> \o rows(S \ {first})

\* DCCGraph.find_nodes: Node.objects.filter(<data class>__name=value)
find_nodes(g, value) == {n \in nodes : data[n].val = value}

\* 'n%s' % node.id
node_id(n) == <<"n", n>>

\* 'e%s_%s' % (node.id, child.id)
edge_id(n, c) == <<"e", n, "_", c>>

\* the edges the export appends for node n, one for each of its children
node_edges(n) ==
    LET kids == rows(children_all(n))
    IN [i \in 1..Len(kids) |->
           [id |-> edge_id(n, kids[i]), source |-> node_id(n), target |-> node_id(kids[i])]]

RECURSIVE all_edges(_)
all_edges(ns) == IF ns = <<>> THEN <<>> ELSE node_edges(Head(ns)) \o all_edges(Tail(ns))

\* the export over the Nodes of every graph
cytoscape_json_every_graph(g) ==
    LET ns == rows(nodes)
    IN [nodes |-> [i \in 1..Len(ns) |-> [id |-> node_id(ns[i])]],
        edges |-> all_edges(ns)]

\* DCCGraph.cytoscape_json with the default extra_fields
cytoscape_json(g) ==
    LET ns == rows({n \in nodes : graph[n] = g})
    IN [nodes |-> [i \in 1..Len(ns) |-> [id |-> node_id(ns[i])]],
        edges |-> all_edges(ns)]

call_find_nodes(g, value) ==
    /\ pc.phase = "idle"
    /\ last' = Result("find_nodes", g, "", [name |-> value, found |-> find_nodes(g, value)])
    /\ UNCHANGED <<tableVars, flowVars, nextId, nextStateId>>

call_cytoscape_json(g) ==
    /\ pc.phase = "idle"
    /\ last' = Result("cytoscape_json", g, "", cytoscape_json(g))
    /\ UNCHANGED <<tableVars, flowVars, nextId, nextStateId>>

NextQueries ==
    \/ \E p \in nodes : add_child(p, "Label")
    \/ \E p \in nodes, c \in nodes : connect_child(p, c)
    \/ \E g \in graphs, value \in {"Label", "Other"} : call_find_nodes(g, value)
    \/ \E g \in graphs : call_cytoscape_json(g)

SpecQueries == InitTwoGraphs /\ [][NextQueries]_vars

\* ------------------------------------------------------------------------
\* Rules (flowr/sample_rules.py)

Rules == {"A", "B", "C", "D", "E"}

rule_children == [r \in Rules |->
    CASE r = "A" -> <<"B", "C">>
      [] r = "C" -> <<"D", "E">>
      [] r = "E" -> <<"A">>
      [] OTHER -> <<>>]

multiple_paths == [r \in Rules |-> r = "C"]

Range(q) == {q[i] : i \in 1..Len(q)}

\* _MetaRule: class_label is '<module>.<name>'
class_label(r) == <<"flowr.sample_rules", r>>

\* FlowNodeData.__init__: rsplit the label, import the module, getattr the class
rule_of(label) == label[2]

root_rule == "A"

\* the rule a node's FlowNodeData carries
node_rule(n) == rule_of(data[n].val)

\* ------------------------------------------------------------------------
\* Flow editing

\* _child_allowed without its last check, the rule's declared children
child_allowed_any_rule(n, child_rule) ==
    LET num_kids == Cardinality(children_all(n))
        num_kids_allowed == IF ~multiple_paths[node_rule(n)] THEN 1
                            ELSE Len(rule_children[node_rule(n)])
    IN IF num_kids >= num_kids_allowed THEN "ArityExceeded"
       ELSE IF \E c \in children_all(n) : data[c].val = class_label(child_rule)
            THEN "DuplicateChild"
       ELSE ""

\* _child_allowed without its first check, the number of children
child_allowed_no_arity(n, child_rule) ==
    IF \E c \in children_all(n) : data[c].val = class_label(child_rule)
    THEN "DuplicateChild"
    ELSE IF child_rule \notin Range(rule_children[node_rule(n)])
         THEN "IllegalTransition"
    ELSE ""

\* _child_allowed without its second check, the rules of the children
child_allowed_no_duplicate(n, child_rule) ==
    LET num_kids == Cardinality(children_all(n))
        num_kids_allowed == IF ~multiple_paths[node_rule(n)] THEN 1
                            ELSE Len(rule_children[node_rule(n)])
    IN IF num_kids >= num_kids_allowed THEN "ArityExceeded"
       ELSE IF child_rule \notin Range(rule_children[node_rule(n)])
            THEN "IllegalTransition"
       ELSE ""

\* _child_allowed that looks for a duplicate before it counts the children
child_allowed_duplicate_first(n, child_rule) ==
    LET num_kids == Cardinality(children_all(n))
        num_kids_allowed == IF ~multiple_paths[node_rule(n)] THEN 1
                            ELSE Len(rule_children[node_rule(n)])
    IN IF \E c \in children_all(n) : data[c].val = class_label(child_rule)
       THEN "DuplicateChild"
       ELSE IF num_kids >= num_kids_allowed THEN "ArityExceeded"
       ELSE IF child_rule \notin Range(rule_children[node_rule(n)])
            THEN "IllegalTransition"
       ELSE ""

\* FlowNodeData._child_allowed on the data of node n: the failure it raises, or ""
child_allowed(n, child_rule) ==
    LET num_kids == Cardinality(children_all(n))
        num_kids_allowed == IF ~multiple_paths[node_rule(n)] THEN 1
                            ELSE Len(rule_children[node_rule(n)])
    IN IF num_kids >= num_kids_allowed THEN "ArityExceeded"
       ELSE IF \E c \in children_all(n) : data[c].val = class_label(child_rule)
            THEN "DuplicateChild"
       ELSE IF child_rule \notin Range(rule_children[node_rule(n)])
            THEN "IllegalTransition"
       ELSE ""

\* in_use that looks for a State of any Flow
in_use_any_flow(f) == \E s \in StateIds : states[s].flow # NULL

\* Flow.in_use
in_use(f) == \E s \in StateIds : states[s].flow = f

flow_of(n) == CHOOSE f \in FlowIds : flows[f] = graph[n]

\* add_child_rule that creates the child before it validates the rule
add_child_rule_creates_first(n, child_rule) ==
    /\ pc.phase = "idle"
    /\ nextId <= MaxNodes
    /\ Commit(add_child_tables(n, class_label(child_rule)))
    /\ nextId' = nextId + 1
    /\ edited' = (edited \/ in_use(flow_of(n)))
    /\ IF child_allowed(n, child_rule) # ""
       THEN last' = Result("add_child_rule", n, child_allowed(n, child_rule), child_rule)
       ELSE last' = Result("add_child_rule", n, "", data'[nextId])
    /\ UNCHANGED <<done_enter, done_leave, pc, seen, nextStateId>>

add_child_rule(n, child_rule) ==
    /\ pc.phase = "idle"
    /\ nextId <= MaxNodes
    /\ IF child_allowed(n, child_rule) # ""
       THEN /\ last' = Result("add_child_rule", n, child_allowed(n, child_rule), child_rule)
            /\ UNCHANGED <<tableVars, nextId, edited>>
       ELSE /\ Commit(add_child_tables(n, class_label(child_rule)))
            /\ last' = Result("add_child_rule", n, "", data'[nextId])
            /\ nextId' = nextId + 1
            /\ edited' = (edited \/ in_use(flow_of(n)))
    /\ UNCHANGED <<done_enter, done_leave, pc, seen, nextStateId>>

\* connect_child of FlowNodeData without the call of _child_allowed
flow_connect_child_unchecked(n, c) ==
    /\ pc.phase = "idle"
    /\ IF graph[c] # graph[n]
       THEN /\ last' = Result("connect_child", n, "CrossGraphConnection", c)
            /\ UNCHANGED <<tableVars, edited>>
       ELSE /\ last' = Result("connect_child", n, "", c)
            /\ Commit(connect_child_tables(n, c))
            /\ edited' = (edited \/ in_use(flow_of(n)))
    /\ UNCHANGED <<done_enter, done_leave, pc, seen, nextId, nextStateId>>

flow_connect_child(n, c) ==
    /\ pc.phase = "idle"
    /\ IF child_allowed(n, node_rule(c)) # ""
       THEN /\ last' = Result("connect_child", n, child_allowed(n, node_rule(c)), c)
            /\ UNCHANGED <<tableVars, edited>>
       ELSE IF graph[c] # graph[n]
       THEN /\ last' = Result("connect_child", n, "CrossGraphConnection", c)
            /\ UNCHANGED <<tableVars, edited>>
       ELSE /\ last' = Result("connect_child", n, "", c)
            /\ Commit(connect_child_tables(n, c))
            /\ edited' = (edited \/ in_use(flow_of(n)))
    /\ UNCHANGED <<done_enter, done_leave, pc, seen, nextId, nextStateId>>

\* ------------------------------------------------------------------------
\* States

Fired(s, r) == [state |-> s, rule |-> r]

\* what a callback (or the save) finds: the State's cursor and how many
\* callbacks have fired before it
Seen(ev, r, cur) ==
    [ev |-> ev, rule |-> r, current_node |-> cur,
     nleave |-> Len(done_leave), nenter |-> Len(done_enter)]

\* start that creates the State and calls no on_enter
start_no_on_enter(f) ==
    /\ pc.phase = "idle"
    /\ states' = [states EXCEPT ![nextStateId] =
                      [flow |-> f, current_node |-> root[flows[f]]]]
    /\ nextStateId' = nextStateId + 1
    /\ last' = Result("start", f, "", nextStateId)
    /\ UNCHANGED <<graphs, root, nodes, graph, parents, children, data, flows,
                   done_enter, done_leave, pc, seen, edited, nextId>>

\* start that also puts the States the flow already has back on the root
start_resets_started(f) ==
    /\ pc.phase = "idle"
    /\ states' = [s \in StateIds |->
                      IF s = nextStateId \/ states[s].flow = f
                      THEN [flow |-> f, current_node |-> root[flows[f]]]
                      ELSE states[s]]
    /\ done_enter' = Append(done_enter, Fired(nextStateId, node_rule(root[flows[f]])))
    /\ nextStateId' = nextStateId + 1
    /\ last' = Result("start", f, "", nextStateId)
    /\ UNCHANGED <<graphs, root, nodes, graph, parents, children, data, flows,
                   done_leave, pc, seen, edited, nextId>>

\* State.start: the State row on the root, then on_enter of the root's rule
start(f) ==
    /\ pc.phase = "idle"
    /\ states' = [states EXCEPT ![nextStateId] =
                      [flow |-> f, current_node |-> root[flows[f]]]]
    /\ done_enter' = Append(done_enter, Fired(nextStateId, node_rule(root[flows[f]])))
    /\ nextStateId' = nextStateId + 1
    /\ last' = Result("start", f, "", nextStateId)
    /\ UNCHANGED <<graphs, root, nodes, graph, parents, children, data, flows,
                   done_leave, pc, seen, edited, nextId>>

\* matching that searches every node of the flow graph, not only the children
matching_any_node(s, rule) ==
    {c \in nodes : graph[c] = graph[states[s].current_node]
                       /\ data[c].val = class_label(rule)}

\* the children of the current node that carry the chosen rule
matching(s, rule) ==
    {c \in children_all(states[s].current_node) : data[c].val = class_label(rule)}

\* next_state without the check for a node with no children
next_state_error_no_leaf(s, rule) ==
    LET num_kids == Cardinality(children_all(states[s].current_node))
    IN IF num_kids = 1 THEN ""
       ELSE IF rule = NoChoice THEN "ChoiceRequired"
       ELSE IF matching(s, rule) = {} THEN "InvalidChoice"
       ELSE ""

\* next_state that asks for a choice when the rule is multiple_paths, however
\* many children the node has
next_state_error_by_rule(s, rule) ==
    LET num_kids == Cardinality(children_all(states[s].current_node))
    IN IF num_kids = 0 THEN "NoNextState"
       ELSE IF ~multiple_paths[node_rule(states[s].current_node)] THEN ""
       ELSE IF rule = NoChoice THEN "ChoiceRequired"
       ELSE IF matching(s, rule) = {} THEN "InvalidChoice"
       ELSE ""

\* next_state without the check that a choice was passed
next_state_error_no_choice(s, rule) ==
    LET num_kids == Cardinality(children_all(states[s].current_node))
    IN IF num_kids = 0 THEN "NoNextState"
       ELSE IF num_kids = 1 THEN ""
       ELSE IF matching(s, rule) = {} THEN "InvalidChoice"
       ELSE ""

\* State.next_state up to the callbacks: the failure it raises, or ""
next_state_error(s, rule) ==
    LET num_kids == Cardinality(children_all(states[s].current_node))
    IN IF num_kids = 0 THEN "NoNextState"
       ELSE IF num_kids = 1 THEN ""
       ELSE IF rule = NoChoice THEN "ChoiceRequired"
       ELSE IF matching(s, rule) = {} THEN "InvalidChoice"
       ELSE ""

\* the nodes next_state may pick as next_node
next_nodes(s, rule) ==
    IF Cardinality(children_all(states[s].current_node)) = 1
    THEN children_all(states[s].current_node)
    ELSE matching(s, rule)

\* next_state that moves the cursor before it calls on_leave and on_enter
next_state_moves_first(s, rule) ==
    /\ pc.phase = "idle"
    /\ states[s].flow # NULL
    /\ Len(done_leave) < MaxSteps
    /\ IF next_state_error(s, rule) # ""
       THEN /\ last' = Result("next_state", s, next_state_error(s, rule), rule)
            /\ UNCHANGED <<pc, seen, states>>
       ELSE /\ \E n \in next_nodes(s, rule) :
                   /\ pc' = [phase |-> "on_leave", state |-> s, next_node |-> n]
                   /\ states' = [states EXCEPT ![s].current_node = n]
            /\ seen' = <<>>
            /\ last' = Result("next_state", s, "running", rule)
    /\ UNCHANGED <<graphs, root, nodes, graph, parents, children, data, flows,
                   done_enter, done_leave, edited, nextId, nextStateId>>

next_state(s, rule) ==
    /\ pc.phase = "idle"
    /\ states[s].flow # NULL
    /\ Len(done_leave) < MaxSteps
    /\ IF next_state_error(s, rule) # ""
       THEN /\ last' = Result("next_state", s, next_state_error(s, rule), rule)
            /\ UNCHANGED <<pc, seen>>
       ELSE /\ \E n \in next_nodes(s, rule) :
                   pc' = [phase |-> "on_leave", state |-> s, next_node |-> n]
            /\ seen' = <<>>
            /\ last' = Result("next_state", s, "running", rule)
    /\ UNCHANGED <<tableVars, done_enter, done_leave, edited, nextId, nextStateId>>

\* self.current_node.data.rule.on_leave(self)
on_leave ==
    /\ pc.phase = "on_leave"
    /\ LET r == node_rule(states[pc.state].current_node)
       IN /\ done_leave' = Append(done_leave, Fired(pc.state, r))
          /\ seen' = Append(seen, Seen("on_leave", r, states[pc.state].current_node))
    /\ pc' = [pc EXCEPT !.phase = "on_enter"]
    /\ UNCHANGED <<tableVars, done_enter, edited, nextId, nextStateId, last>>

\* on_enter of the rule being left instead of the rule being entered
on_enter_of_current ==
    /\ pc.phase = "on_enter"
    /\ LET r == node_rule(states[pc.state].current_node)
       IN /\ done_enter' = Append(done_enter, Fired(pc.state, r))
          /\ seen' = Append(seen, Seen("on_enter", r, states[pc.state].current_node))
    /\ pc' = [pc EXCEPT !.phase = "save"]
    /\ UNCHANGED <<tableVars, done_leave, edited, nextId, nextStateId, last>>

\* next_node.data.rule.on_enter(self)
on_enter ==
    /\ pc.phase = "on_enter"
    /\ LET r == node_rule(pc.next_node)
       IN /\ done_enter' = Append(done_enter, Fired(pc.state, r))
          /\ seen' = Append(seen, Seen("on_enter", r, states[pc.state].current_node))
    /\ pc' = [pc EXCEPT !.phase = "save"]
    /\ UNCHANGED <<tableVars, done_leave, edited, nextId, nextStateId, last>>

\* the save of a next_state that puts the State back on the root of its flow
save_on_root ==
    /\ pc.phase = "save"
    /\ states' = [states EXCEPT ![pc.state].current_node =
                      root[flows[states[pc.state].flow]]]
    /\ seen' = Append(seen, Seen("save", node_rule(pc.next_node), pc.next_node))
    /\ pc' = Idle
    /\ last' = Result("next_state", pc.state, "", pc.next_node)
    /\ UNCHANGED <<graphs, root, nodes, graph, parents, children, data, flows,
                   done_enter, done_leave, edited, nextId, nextStateId>>

\* self.current_node = next_node; self.save()
save ==
    /\ pc.phase = "save"
    /\ states' = [states EXCEPT ![pc.state].current_node = pc.next_node]
    /\ seen' = Append(seen, Seen("save", node_rule(pc.next_node), pc.next_node))
    /\ pc' = Idle
    /\ last' = Result("next_state", pc.state, "", pc.next_node)
    /\ UNCHANGED <<graphs, root, nodes, graph, parents, children, data, flows,
                   done_enter, done_leave, edited, nextId, nextStateId>>

\* ------------------------------------------------------------------------
\* A flow of the sample rules and the States that run it

\* Flow.factory('Flow', rule_set): the graph with its root, then the Flow row
flow_factory_tables(f, g) ==
    [factory_tables(g, class_label(root_rule)) EXCEPT !.flows[f] = g]

InitFlow ==
    /\ Load(flow_factory_tables(1, 1))
    /\ nextId = 2
    /\ nextStateId = 1
    /\ done_enter = <<>>
    /\ done_leave = <<>>
    /\ pc = Idle
    /\ seen = <<>>
    /\ edited = FALSE
    /\ last = Result("init", NULL, "", NULL)

NextFlow ==
    \/ \E n \in nodes, r \in Rules : add_child_rule(n, r)
    \/ \E n \in nodes, c \in nodes : flow_connect_child(n, c)
    \/ \E f \in FlowIds : flows[f] # NULL /\ nextStateId <= MaxStates /\ start(f)
    \/ \E s \in StateIds, r \in Rules \cup {NoChoice} : next_state(s, r)
    \/ on_leave
    \/ on_enter
    \/ save

SpecFlow == InitFlow /\ [][NextFlow]_vars

\* ------------------------------------------------------------------------
\* States started on a flow that is already built: the multipath, looping
\* flow A -> C -> {D, E}, E -> A

\* root.add_child_rule(C); C.add_child_rule(D); C.add_child_rule(E);
\* E.connect_child(root) on the flow f of graph g
flow2_tables(f, g) ==
    LET label == [m \in 1..4 |-> class_label(<<"A", "C", "D", "E">>[m])]
    IN [flow_factory_tables(f, g) EXCEPT
           !.nodes = 1..4,
           !.graph = [m \in NodeIds |-> IF m \in 1..4 THEN g ELSE NULL],
           !.data = [m \in NodeIds |-> IF m \in 1..4
                                         THEN [node |-> m, val |-> label[m]]
                                         ELSE NoData],
           !.children = {<<1, 2>>, <<2, 3>>, <<2, 4>>, <<4, 1>>},
           !.parents = {<<2, 1>>, <<3, 2>>, <<4, 2>>, <<1, 4>>}]

InitRun ==
    /\ Load(flow2_tables(1, 1))
    /\ nextId = 5
    /\ nextStateId = 1
    /\ done_enter = <<>>
    /\ done_leave = <<>>
    /\ pc = Idle
    /\ seen = <<>>
    /\ edited = FALSE
    /\ last = Result("init", NULL, "", NULL)

NextRun ==
    \/ \E f \in FlowIds : flows[f] # NULL /\ nextStateId <= MaxRunStates /\ start(f)
    \/ \E s \in StateIds, r \in Rules \cup {NoChoice} : next_state(s, r)
    \/ on_leave
    \/ on_enter
    \/ save

SpecRun == InitRun /\ [][NextRun]_vars

\* ------------------------------------------------------------------------
\* Callbacks that raise: next_state calls on_leave and on_enter with no
\* try/except around them, so what a Rule's callback raises leaves next_state
\* at that line, before the assignment of the cursor and the save

\* on_enter raising after the cursor was assigned and saved
on_enter_raises_after_save ==
    /\ pc.phase = "on_enter"
    /\ states' = [states EXCEPT ![pc.state].current_node = pc.next_node]
    /\ seen' = Append(seen, Seen("on_enter raised", node_rule(pc.next_node),
                                 pc.next_node))
    /\ pc' = Idle
    /\ last' = Result("next_state", pc.state, "CallbackFailed", "on_enter")
    /\ UNCHANGED <<graphs, root, nodes, graph, parents, children, data, flows,
                   done_enter, done_leave, edited, nextId, nextStateId>>

\* self.current_node.data.rule.on_leave(self) raising
on_leave_raises ==
    /\ pc.phase = "on_leave"
    /\ seen' = Append(seen, Seen("on_leave raised",
                                 node_rule(states[pc.state].current_node),
                                 states[pc.state].current_node))
    /\ pc' = Idle
    /\ last' = Result("next_state", pc.state, "CallbackFailed", "on_leave")
    /\ UNCHANGED <<tableVars, done_enter, done_leave, edited, nextId, nextStateId>>

\* next_node.data.rule.on_enter(self) raising
on_enter_raises ==
    /\ pc.phase = "on_enter"
    /\ seen' = Append(seen, Seen("on_enter raised", node_rule(pc.next_node),
                                 states[pc.state].current_node))
    /\ pc' = Idle
    /\ last' = Result("next_state", pc.state, "CallbackFailed", "on_enter")
    /\ UNCHANGED <<tableVars, done_enter, done_leave, edited, nextId, nextStateId>>

NextCallbacks ==
    \/ \E f \in FlowIds : flows[f] # NULL /\ nextStateId <= MaxRunStates /\ start(f)
    \/ \E s \in StateIds, r \in Rules \cup {NoChoice} : next_state(s, r)
    \/ on_leave
    \/ on_leave_raises
    \/ on_enter
    \/ on_enter_raises
    \/ save

SpecCallbacks == InitRun /\ [][NextCallbacks]_vars

\* ------------------------------------------------------------------------
\* The export of a RuleSet, over the sample rules and over drawn rule classes

\* Rule classes A, B, C whose children lists are drawn: every list of up to
\* MaxRuleKids of them, repeats and the class itself included
DrawnRules == {"A", "B", "C"}

DrawnLists == UNION {[1..k -> DrawnRules] : k \in 0..MaxRuleKids}

RuleGraphs == {rule_children} \cup [DrawnRules -> DrawnLists]

RECURSIVE depth_cyto_traverse(_, _, _)
RECURSIVE cyto_children_unvisited(_, _, _, _)
RECURSIVE cyto_children(_, _, _, _)

\* the loop over rule.children that appends an edge only for a child that
\* was not visited before
cyto_children_unvisited(kids, rule, list, acc) ==
    IF list = <<>> THEN acc
    ELSE LET child == Head(list)
             a1 == IF child \in acc.visited THEN acc
                   ELSE [acc EXCEPT !.edges = Append(@,
                            [id |-> <<rule, "_", child>>, source |-> rule, target |-> child])]
         IN cyto_children_unvisited(kids, rule, Tail(list),
                                    depth_cyto_traverse(kids, child, a1))

\* the loop over rule.children: the edge, then the traversal of the child
cyto_children(kids, rule, list, acc) ==
    IF list = <<>> THEN acc
    ELSE LET child == Head(list)
             a1 == [acc EXCEPT !.edges = Append(@,
                       [id |-> <<rule, "_", child>>, source |-> rule, target |-> child])]
         IN cyto_children(kids, rule, Tail(list), depth_cyto_traverse(kids, child, a1))

\* RuleSet._depth_cyto_traverse on the rule classes with children lists kids
depth_cyto_traverse(kids, rule, acc) ==
    IF rule \in acc.visited THEN acc
    ELSE cyto_children(kids, rule, kids[rule],
             [visited |-> acc.visited \cup {rule},
              nodes |-> Append(acc.nodes, [id |-> rule, label |-> rule]),
              edges |-> acc.edges])

\* RuleSet.cytoscape_json of a RuleSet with root rule r
rule_cytoscape_json(kids, r) ==
    LET acc == depth_cyto_traverse(kids, r, [visited |-> {}, nodes |-> <<>>, edges |-> <<>>])
    IN [nodes |-> acc.nodes, edges |-> acc.edges]

InitRules ==
    /\ Load(no_tables)
    /\ nextId = 1
    /\ nextStateId = 1
    /\ done_enter = <<>>
    /\ done_leave = <<>>
    /\ pc = Idle
    /\ seen = <<>>
    /\ edited = FALSE
    /\ \E kids \in RuleGraphs : last = Result("RuleSet.factory", NULL, "", kids)

call_rule_cytoscape_json ==
    /\ last.op = "RuleSet.factory"
    /\ last' = Result("RuleSet.cytoscape_json", NULL, "",
                      [rules |-> last.ret, export |-> rule_cytoscape_json(last.ret, root_rule)])
    /\ UNCHANGED <<tableVars, flowVars, nextId, nextStateId>>

NextRules == call_rule_cytoscape_json

SpecRules == InitRules /\ [][NextRules]_vars

\* ------------------------------------------------------------------------
\* Two flows of the sample rules, edited and started side by side

\* a second Flow.factory: graph g with root Node n, then the Flow row f
flow_factory_more_tables(t, f, g, n) ==
    [factory_more_tables(t, g, n, class_label(root_rule)) EXCEPT !.flows[f] = g]

InitTwoFlows ==
    /\ Load(flow_factory_more_tables(flow_factory_tables(1, 1), 2, 2, 2))
    /\ nextId = 3
    /\ nextStateId = 1
    /\ done_enter = <<>>
    /\ done_leave = <<>>
    /\ pc = Idle
    /\ seen = <<>>
    /\ edited = FALSE
    /\ last = Result("init", NULL, "", NULL)

NextTwoFlows ==
    \/ \E n \in nodes, r \in Rules : add_child_rule(n, r)
    \/ \E n \in nodes, c \in nodes : flow_connect_child(n, c)
    \/ \E f \in FlowIds : flows[f] # NULL /\ nextStateId <= MaxRunStates /\ start(f)

SpecTwoFlows == InitTwoFlows /\ [][NextTwoFlows]_vars

\* ------------------------------------------------------------------------
\* Reachability, stated on the edge set and not by the traversals above

\* the nodes reachable from the set S by zero or more child edges
RECURSIVE Closure(_)
Closure(S) ==
    LET S2 == S \cup {e[2] : e \in {x \in children : x[1] \in S}}
    IN IF S2 = S THEN S ELSE Closure(S2)

\* the nodes reached from n by a path of one or more child edges none of
\* whose intermediate nodes is the root of n's graph
RECURSIVE BoundedFrom(_, _)
BoundedFrom(n, R) ==
    LET R2 == children_all(n)
                \cup {e[2] : e \in {x \in children : x[1] \in R \ {root[graph[n]]}}}
    IN IF R2 = R THEN R ELSE BoundedFrom(n, R2)

RootConnected ==
    \A g \in graphs : {n \in nodes : graph[n] = g} \subseteq Closure({root[g]})

EdgesAmong(E, S) == {e \in E : e[1] \in S /\ e[2] \in S}

\* ------------------------------------------------------------------------
\* Claims on the graph (SpecGraph)

\* C1: after any sequence of successful add_child, connect_child, remove and
\* prune calls every node that still exists is reachable from the root of its
\* graph by child edges.
C1_RootConnected == RootConnected

\* C4: remove and prune never delete the root: the node the factory created
\* as root (node 1 of graph 1) still exists and is still the root.
C4_RootNeverDeleted == 1 \in nodes /\ 1 \in graphs /\ root[1] = 1

C6_RemoveKeepsConnected ==
    [][(last'.op = "remove" /\ last'.err = "" /\ RootConnected) => RootConnected']_vars

\* C7: prune_list() changes nothing in the graph, and a prune() called right
\* after it on the same node removes exactly the nodes prune_list() returned.
C7_PruneRemovesPreview ==
    [][/\ last'.op = "prune_list" => UNCHANGED tableVars
       /\ (last.op = "prune_list" /\ last'.op = "prune" /\ last'.node = last.node)
              => nodes \ nodes' = last.ret
      ]_vars

FlowGraphNodes(f) == {n \in nodes : graph[n] = flows[f]}

\* the rules of the callbacks in log that fired for State s, in order
RECURSIVE RulesFired(_, _)
RulesFired(log, s) ==
    IF log = <<>> THEN <<>>
    ELSE IF Head(log).state = s
         THEN <<Head(log).rule>> \o RulesFired(Tail(log), s)
         ELSE RulesFired(Tail(log), s)

\* C2: after any sequence of add_child_rule and connect_child calls, accepted
\* or rejected, the rule of the child of every edge of the flow graph is one
\* of the declared children of the rule of the edge's parent.
C2_EdgesFollowRules ==
    \A e \in children :
        node_rule(e[2]) \in Range(rule_children[node_rule(e[1])])

C2_Witness ==
    /\ last.op = "connect_child"
    /\ last.err = ""
    /\ <<last.node, last.ret>> \in children
    /\ is_root(last.ret)
    /\ Cardinality(children) >= 3

\* C3: once a State exists for a Flow every add_child_rule and connect_child
\* on the Flow is rejected and the Flow's graph keeps its nodes and edges.
C3_InUseFlowNotEdited ==
    [][\A f \in FlowIds : in_use(f) =>
          /\ FlowGraphNodes(f)' = FlowGraphNodes(f)
          /\ children' = children
          /\ parents' = parents
          /\ (last'.op \in {"add_child_rule", "connect_child"} => last'.err # "")
      ]_vars

\* C9: in a successful next_state on_leave of the current node's rule fires
\* first, then on_enter of the target node's rule, then the cursor moves:
\* both callbacks find the cursor on the source node, and each fires once.
C9_LeaveEnterThenMove ==
    /\ Len(seen) <= 3
    /\ \A i \in 1..Len(seen) : seen[i].ev = <<"on_leave", "on_enter", "save">>[i]
    /\ pc.phase = "on_leave" => seen = <<>>
    /\ pc.phase = "on_enter" => Len(seen) = 1
    /\ pc.phase = "save" => Len(seen) = 2
    /\ pc.phase \in {"on_enter", "save"} =>
          /\ states[pc.state].current_node = seen[1].current_node
          /\ <<seen[1].current_node, pc.next_node>> \in children
          /\ Len(done_leave) = seen[1].nleave + 1
    /\ (pc.phase = "idle" /\ last.op = "next_state" /\ last.err = "") =>
          /\ Len(seen) = 3
          /\ states[last.node].current_node = last.ret
          /\ seen[3].current_node = last.ret
          /\ Len(done_leave) = seen[1].nleave + 1
          /\ Len(done_enter) = seen[1].nenter + 1
    /\ Len(seen) >= 1 =>
          /\ seen[1].rule = node_rule(seen[1].current_node)
          /\ done_leave[seen[1].nleave + 1].rule = seen[1].rule
    /\ Len(seen) >= 2 =>
          /\ seen[2].current_node = seen[1].current_node
          /\ seen[2].nleave = seen[1].nleave + 1
          /\ seen[2].nenter = seen[1].nenter
          /\ done_enter[seen[2].nenter + 1].rule = seen[2].rule
    /\ Len(seen) = 3 =>
          /\ <<seen[1].current_node, seen[3].current_node>> \in children
          /\ seen[2].rule = node_rule(seen[3].current_node)
          /\ seen[3].nleave = seen[2].nleave
          /\ seen[3].nenter = seen[2].nenter + 1

C9_Witness ==
    /\ pc.phase = "idle"
    /\ last.op = "next_state"
    /\ last.err = ""
    /\ Len(seen) = 3
    /\ seen[1].rule # seen[2].rule

NextStateCall(s, choice) ==
    /\ pc.phase = "idle"
    /\ last'.op = "next_state"
    /\ last'.node = s
    /\ last'.ret = choice

\* the call left the State, the callback logs and the position as they were
CallRejected(err) ==
    /\ last'.err = err
    /\ UNCHANGED <<tableVars, done_enter, done_leave, pc>>

\* the call picked node n: the rest of next_state runs and ends on n
CallPicks(s, n) ==
    /\ last'.err = "running"
    /\ pc' = [phase |-> "on_leave", state |-> s, next_node |-> n]
    /\ UNCHANGED <<tableVars, done_enter, done_leave>>

\* once a node is picked the callbacks keep it and the save moves the cursor to it
PickedIsReached ==
    /\ pc.phase \in {"on_leave", "on_enter"} =>
          /\ pc'.state = pc.state
          /\ pc'.next_node = pc.next_node
          /\ pc'.phase # "idle"
          /\ states' = states
    /\ pc.phase = "save" =>
          /\ pc' = Idle
          /\ states'[pc.state].current_node = pc.next_node
          /\ last'.err = ""

Kids(s) == children_all(states[s].current_node)

Choices == Rules \cup {NoChoice}

\* C11: next_state on a State whose current node has no children fails with
\* the no-next-state error whatever choice is passed; the cursor stays and
\* neither callback fires.
C11_LeafHasNoNextState ==
    [][\A s \in StateIds, ch \in Choices :
          (NextStateCall(s, ch) /\ Kids(s) = {}) => CallRejected("NoNextState")
      ]_vars

C11_Witness ==
    /\ last.op = "next_state"
    /\ last.err = "NoNextState"
    /\ last.ret # NoChoice
    /\ children_all(states[last.node].current_node) = {}

\* C12: next_state on a State whose current node has exactly one child moves
\* the cursor to that child, with no choice, a matching choice or a choice
\* that does not match, also when the node's rule is multiple_paths.
C12_OneChildAdvances ==
    [][/\ \A s \in StateIds, ch \in Choices :
             (NextStateCall(s, ch) /\ Cardinality(Kids(s)) = 1) =>
                 \E n \in Kids(s) : CallPicks(s, n)
       /\ PickedIsReached
      ]_vars

C12_Witness ==
    /\ pc.phase = "on_leave"
    /\ last.ret # NoChoice
    /\ data[pc.next_node].val # class_label(last.ret)
    /\ multiple_paths[node_rule(states[pc.state].current_node)]
    /\ Cardinality(children_all(states[pc.state].current_node)) = 1

\* C13: next_state without a choice on a State whose current node has more
\* than one child fails with the choice-required error; the cursor stays and
\* no callback fires.
C13_ChoiceRequired ==
    [][\A s \in StateIds :
          (NextStateCall(s, NoChoice) /\ Cardinality(Kids(s)) > 1) =>
              CallRejected("ChoiceRequired")
      ]_vars

C13_Witness ==
    /\ last.op = "next_state"
    /\ last.err = "ChoiceRequired"
    /\ Cardinality(children_all(states[last.node].current_node)) > 1

C15_StartOnRoot ==
    [][last'.op = "start" =>
          LET f == last'.node
              s == last'.ret
          IN /\ states[s] = NoState
             /\ states'[s] = [flow |-> f, current_node |-> root[flows[f]]]
             /\ node_rule(root[flows[f]]) = root_rule
             /\ done_enter' = Append(done_enter, Fired(s, root_rule))
             /\ done_leave' = done_leave
      ]_vars

C15_Witness ==
    /\ last.op = "start"
    /\ states[last.ret].current_node = root[flows[last.node]]
    /\ Len(done_enter) = 1
    /\ done_leave = <<>>

C17_ArityOfRules ==
    \A n \in nodes :
        Cardinality(children_all(n)) <=
            IF multiple_paths[node_rule(n)] THEN Len(rule_children[node_rule(n)]) ELSE 1

C17_Witness ==
    \E n \in nodes :
        /\ multiple_paths[node_rule(n)]
        /\ Cardinality(children_all(n)) = 2
        /\ last.err = "ArityExceeded"
        /\ last.node = n

NoDuplicateChildren ==
    \A n \in nodes : \A c1, c2 \in children_all(n) :
        c1 # c2 => data[c1].val # data[c2].val

\* C18: no node has two children that carry the same rule; an add_child_rule
\* or connect_child whose rule a child of the node already carries is rejected.
C18_NoDuplicateChildRules ==
    [][/\ NoDuplicateChildren'
       /\ (last'.op = "add_child_rule" /\ last'.err = "") =>
             \A c \in children_all(last'.node) : data[c].val # last'.ret.val
       /\ (last'.op = "connect_child" /\ last'.err = "") =>
             \A c \in children_all(last'.node) : data[c].val # data[last'.ret].val
      ]_vars

C18_Witness ==
    /\ last.op = "add_child_rule"
    /\ last.err = "DuplicateChild"
    /\ \E c \in children_all(last.node) : node_rule(c) = last.ret

\* ------------------------------------------------------------------------
\* Claims on the edges of a graph (SpecTwoGraphs, SpecGraph)

\* C19: Node.connect_child(other) fails with the cross-graph error when other
\* belongs to another graph and then adds no edge; when other belongs to the
\* same graph it succeeds for every pair of nodes, self-loops and edges to
\* the root included, and adds the edge self -> other.
C19_ConnectWithinOneGraph ==
    [][\A p, c \in nodes :
          (last'.op = "connect_child" /\ last'.node = p /\ last'.ret = c) =>
              IF graph[c] # graph[p]
              THEN /\ last'.err = "CrossGraphConnection"
                   /\ UNCHANGED tableVars
              ELSE /\ last'.err = ""
                   /\ children' = children \cup {<<p, c>>}
                   /\ parents' = parents \cup {<<c, p>>}
                   /\ UNCHANGED <<graphs, root, nodes, graph, data>>
      ]_vars

C19_Witness ==
    /\ last.op = "connect_child"
    /\ last.err = "CrossGraphConnection"
    /\ graph[last.node] # graph[last.ret]
    /\ \E n \in nodes : <<n, n>> \in children
    /\ \E n \in nodes : ~is_root(n) /\ <<n, root[graph[n]]>> \in children

\* C20: after any sequence of add_child, connect_child, remove and prune the
\* parent and child relations are mutually inverse: for all existing nodes a
\* and b, b is in a.children exactly when a is in b.parents.
C20_ParentsInverseOfChildren ==
    \A a, b \in nodes : (b \in children_all(a)) <=> (a \in parents_all(b))

C20_Witness ==
    /\ last.op \in {"remove", "prune"}
    /\ last.err = ""
    /\ \E a, b \in nodes : a # b /\ b \in children_all(a) /\ a \in parents_all(b)
    /\ \E n \in nodes : n \in children_all(n)

\* ------------------------------------------------------------------------
\* Claims on the traversals (SpecTwoGraphs)

\* the nodes reached from n by one or more child edges
ReachedFrom(n) == Closure(children_all(n))

\* C21: for every node N, descendents() is exactly the set of nodes other
\* than N reachable from N by one or more child edges, and ancestors() is
\* exactly the set of nodes other than N from which N is reachable; N is in
\* neither result.
C21_DescendentsAncestorsAreClosures ==
    LET reached == [m \in nodes |-> ReachedFrom(m)]
    IN \A n \in nodes :
           /\ descendents(n) = reached[n] \ {n}
           /\ ancestors(n) = {m \in nodes \ {n} : n \in reached[m]}
           /\ n \notin descendents(n) \cup ancestors(n)

C21_Witness ==
    \E n \in nodes :
        /\ ~is_root(n)
        /\ n \in children_all(n)
        /\ root[graph[n]] \in ReachedFrom(n)
        /\ Cardinality(descendents(n)) >= 2
        /\ Cardinality(ancestors(n)) >= 2

\* C22: for every node N, descendents_root() is exactly the set of nodes
\* other than N reachable from N along a child path none of whose
\* intermediate nodes is the root: the root is in it when such a path from a
\* non-root N reaches the root, and the nodes reachable only by going on
\* through the root are not.
C22_DescendentsRootStopsAtRoot ==
    \A n \in nodes : descendents_root(n) = BoundedFrom(n, {}) \ {n}

C22_Witness ==
    \E n \in nodes :
        /\ ~is_root(n)
        /\ root[graph[n]] \in descendents_root(n)
        /\ descendents(n) \ descendents_root(n) # {}

\* C23: for every non-root node N, ancestors_root() is exactly the set of
\* nodes other than N from which N is reachable along a child path none of
\* whose intermediate nodes is the root; in a root-connected graph it
\* contains the root; nodes that reach N only through the root are not in
\* it; on the root it is empty, also when cycles give the root parents.
C23_AncestorsRootStopsAtRoot ==
    LET bounded == [m \in nodes |-> BoundedFrom(m, {})]
        connected == RootConnected
    IN \A n \in nodes :
           IF is_root(n)
           THEN ancestors_root(n) = {}
           ELSE /\ ancestors_root(n) = {m \in nodes \ {n} : n \in bounded[m]}
                /\ connected => root[graph[n]] \in ancestors_root(n)

C23_Witness ==
    /\ RootConnected
    /\ \E g \in graphs : parents_all(root[g]) # {}
    /\ \E n \in nodes :
          /\ ~is_root(n)
          /\ root[graph[n]] \in ancestors_root(n)
          /\ ancestors(n) \ ancestors_root(n) # {}

\* C24 as stated: descendents_root() of the root is not empty once the root
\* has any child, and it includes the root only if a cycle reconnects to the
\* root.
C24_RootDescendentsNeverEmpty ==
    \A g \in graphs :
        /\ children_all(root[g]) # {} => descendents_root(root[g]) # {}
        /\ root[g] \in descendents_root(root[g]) => root[g] \in ReachedFrom(root[g])

\* C24: descendents_root() of the root is not empty exactly when the root has
\* a child other than itself, and it never includes the root, also when a
\* cycle reconnects to the root.
C24_RootDescendentsNeedAnotherChild ==
    \A g \in graphs :
        /\ (descendents_root(root[g]) # {}) <=> (children_all(root[g]) \ {root[g]} # {})
        /\ root[g] \notin descendents_root(root[g])

C24_Witness ==
    \E g \in graphs :
        /\ root[g] \in children_all(root[g])
        /\ Cardinality(children_all(root[g])) >= 2
        /\ \E n \in nodes : ~is_root(n) /\ root[g] \in children_all(n)
        /\ descendents_root(root[g]) # {}

\* ------------------------------------------------------------------------
\* Claims on two flows (SpecTwoFlows)

\* C25: Flow.in_use() is false for a Flow just created by Flow.factory, stays
\* false through add_child_rule and connect_child, becomes true with the
\* first State.start on that Flow and stays true; a start on another Flow
\* does not change it.
C25_InUseFromFirstStart ==
    [][\A f \in FlowIds :
          /\ nextStateId = 1 => ~in_use(f)
          /\ in_use(f)' <=> (in_use(f) \/ (last'.op = "start" /\ last'.node = f))
      ]_vars

C25_Witness ==
    /\ in_use(1)
    /\ ~in_use(2)
    /\ last.op \in {"add_child_rule", "connect_child"}
    /\ last.err = ""
    /\ graph[last.node] = flows[2]
    /\ nextStateId > MaxRunStates

\* ------------------------------------------------------------------------
\* Claims on the queries of a graph (SpecQueries)

GraphNodes(g) == {n \in nodes : graph[n] = g}

\* the values of the field of the records of a sequence
Field(q, name) == {q[i][name] : i \in 1..Len(q)}

\* C26: cytoscape_json of a graph lists every node of the graph exactly once
\* and one edge for every parent -> child pair of the graph: as many nodes
\* as the graph has, as many edges as it has child links, every edge's source
\* and target among the exported node ids, and edge ids pairwise distinct.
C26_ExportMatchesGraph ==
    [][last'.op = "cytoscape_json" =>
          LET g == last'.node
              ex == last'.ret
              links == {e \in children : e[1] \in GraphNodes(g)}
          IN /\ Len(ex.nodes) = Cardinality(GraphNodes(g))
             /\ Field(ex.nodes, "id") = {node_id(n) : n \in GraphNodes(g)}
             /\ Len(ex.edges) = Cardinality(links)
             /\ {<<ex.edges[i].source, ex.edges[i].target>> : i \in 1..Len(ex.edges)}
                    = {<<node_id(e[1]), node_id(e[2])>> : e \in links}
             /\ Field(ex.edges, "source") \cup Field(ex.edges, "target")
                    \subseteq Field(ex.nodes, "id")
             /\ Cardinality(Field(ex.edges, "id")) = Len(ex.edges)
             /\ UNCHANGED tableVars
      ]_vars

C26_Witness ==
    /\ last.op = "cytoscape_json"
    /\ Len(last.ret.nodes) = 2
    /\ Len(last.ret.edges) = 3
    /\ \E i \in 1..3 : last.ret.edges[i].source = last.ret.edges[i].target
    /\ Cardinality(nodes) = 4
    /\ Cardinality(children) = 4

\* C28: find_nodes on a graph returns only nodes of that graph whose payload
\* matches the filter, never a node of another graph.
C28_FindNodesWithinGraph ==
    [][last'.op = "find_nodes" =>
          last'.ret.found =
              {n \in GraphNodes(last'.node) : data[n].val = last'.ret.name}
      ]_vars

\* ------------------------------------------------------------------------
\* Claims on the export of a RuleSet (SpecRules)

\* the rules reachable from the rules of S through the children lists kids
RECURSIVE RulesFrom(_, _)
RulesFrom(kids, S) ==
    LET S2 == S \cup UNION {Range(kids[r]) : r \in S}
    IN IF S2 = S THEN S ELSE RulesFrom(kids, S2)

\* how many entries of the sequence q satisfy the test
Count(q, Test(_)) == Cardinality({i \in 1..Len(q) : Test(q[i])})

\* C27: the RuleSet export ends on every rule graph, cyclic and
\* self-referential ones included, and emits exactly one node for every rule
\* reachable from the root rule and exactly one edge for every entry of the
\* children list of a reachable rule; rules that are not reachable from the
\* root are not emitted.
C27_RuleExportCoversReachableRules ==
    [][last'.op = "RuleSet.cytoscape_json" =>
          LET kids == last'.ret.rules
              ex == last'.ret.export
              reach == RulesFrom(kids, {root_rule})
          IN /\ kids = last.ret
             /\ Len(ex.nodes) = Cardinality(reach)
             /\ Field(ex.nodes, "id") = reach
             /\ \A r \in DOMAIN kids, c \in DOMAIN kids :
                   LET Edge(e) == e.source = r /\ e.target = c
                       Entry(x) == x = c
                   IN Count(ex.edges, Edge) =
                          IF r \in reach THEN Count(kids[r], Entry) ELSE 0
             /\ \A i \in 1..Len(ex.edges) :
                   ex.edges[i].source \in reach /\ ex.edges[i].target \in reach
      ]_vars

C27_Witness ==
    /\ last.op = "RuleSet.cytoscape_json"
    /\ last.ret.rules = [r \in DrawnRules |->
                            IF r = "A" THEN <<"A", "B">>
                            ELSE IF r = "B" THEN <<"A">>
                            ELSE <<"C", "A">>]
    /\ Len(last.ret.export.nodes) = 2
    /\ Len(last.ret.export.edges) = 3

\* ------------------------------------------------------------------------
\* Claims on graphs built from a description (SpecTree)

\* the description read back from the tables: the entries of the children of
\* node n, in the order of their ids (the order add_child created them in)
RECURSIVE Described(_)
Described(n) ==
    LET kids == rows(children_all(n))
    IN [i \in 1..Len(kids) |-> <<data[kids[i]].val, Described(kids[i])>>]

\* the graph g is a tree under its root: no parent for the root, one parent
\* for every other node, every node below the root
IsTree(g) ==
    /\ root[g] \in GraphNodes(g)
    /\ parents_all(root[g]) = {}
    /\ \A n \in GraphNodes(g) \ {root[g]} : Cardinality(parents_all(n)) = 1
    /\ \A n \in GraphNodes(g) : \A c \in children_all(n) : n \in parents_all(c)
    /\ Cardinality({e \in children : e[1] \in GraphNodes(g)}) = Cardinality(GraphNodes(g)) - 1
    /\ GraphNodes(g) \subseteq Closure({root[g]})

\* C29: factory_from_graph builds a tree: the graph has one node for every
\* entry of the nested description plus the root, the root has no parent,
\* every other node has exactly one parent, the node of the enclosing entry,
\* and there is no cycle and no cross-link.
C29_FactoryFromGraphBuildsTree ==
    last.op = "factory_from_graph" =>
        LET g == last.node
        IN /\ Cardinality(GraphNodes(g)) = entries(last.ret.children) + 1
           /\ IsTree(g)
           /\ data[root[g]].val = last.ret.root_args
           /\ Described(root[g]) = last.ret.children

C29_Witness ==
    /\ last.op = "factory_from_graph"
    /\ Len(last.ret.children) = 2
    /\ entries(last.ret.children) = 3
    /\ Cardinality(GraphNodes(last.node)) = 4

\* ------------------------------------------------------------------------
\* Claims on the writes of the factory (SpecFactory)

\* C30: at every point of DCCGraph.factory, between any two of its writes and
\* after it returns, a graph whose root pointer is set comes with that root
\* Node, belonging to the graph, and the root's data row.
C30_RootPointerHasRootNode ==
    \A g \in graphs :
        root[g] # NULL =>
            /\ root[g] \in nodes
            /\ graph[root[g]] = g
            /\ data[root[g]].node = root[g]

C30_Witness ==
    /\ pc.phase = "factory_save"
    /\ pc.state \in graphs
    /\ root[pc.state] = NULL
    /\ data[pc.next_node].node = pc.next_node
    /\ \E g \in graphs : root[g] # NULL /\ Cardinality(GraphNodes(g)) >= 2

\* ------------------------------------------------------------------------
\* Claims on the effects of the graph's editing calls (SpecGraph)

\* C31: prune() on a non-root node of a root-connected graph keeps the graph
\* root-connected: every node that survives the prune is still reachable from
\* the root, also when descendents of the pruned node have edges back to the
\* root or parents outside the pruned set.
C31_PruneKeepsConnected ==
    [][(last'.op = "prune" /\ ~is_root(last'.node) /\ RootConnected)
          => RootConnected']_vars

\* a prune of a node with descendents that left the root and another node
C31_Witness ==
    /\ last.op = "prune"
    /\ last.node # 1
    /\ Cardinality(last.ret) >= 2
    /\ root[1] = 1
    /\ \E m \in nodes : m # 1 /\ m \in Closure({1})
    /\ RootConnected

\* ------------------------------------------------------------------------
\* Claims on the validation of a flow's edits (SpecFlow)

\* the rule a finished add_child_rule or connect_child call offered as child
Candidate ==
    IF last'.op = "connect_child" THEN node_rule(last'.ret)
    ELSE IF last'.err # "" THEN last'.ret
    ELSE last'.ret.val[2]

AtCapacity(n) ==
    Cardinality(children_all(n)) >=
        (IF multiple_paths[node_rule(n)] THEN Len(rule_children[node_rule(n)]) ELSE 1)

HasChildOfRule(n, r) == \E c \in children_all(n) : node_rule(c) = r

Declared(n, r) == \E i \in 1..Len(rule_children[node_rule(n)]) :
                      rule_children[node_rule(n)][i] = r

\* C32: the validation of add_child_rule and connect_child checks in a fixed
\* order: a node at capacity reports the arity failure whatever the candidate
\* is (a duplicate or a rule that is not a declared child included); below
\* capacity a duplicate reports the duplicate-child failure, also when it is
\* not a declared child; only then an undeclared rule reports the illegal
\* transition. A node whose rule is not multiple_paths and declares no
\* children reports the illegal transition, not the arity failure.
C32_ValidationOrder ==
    [][last'.op \in {"add_child_rule", "connect_child"} =>
        LET n == last'.node
            r == Candidate
        IN /\ AtCapacity(n) => last'.err = "ArityExceeded"
           /\ (~AtCapacity(n) /\ HasChildOfRule(n, r)) => last'.err = "DuplicateChild"
           /\ (~AtCapacity(n) /\ ~HasChildOfRule(n, r) /\ ~Declared(n, r))
                 => last'.err = "IllegalTransition"
           /\ (~AtCapacity(n) /\ ~HasChildOfRule(n, r) /\ Declared(n, r))
                 => last'.err \in {"", "CrossGraphConnection"}
           /\ (~multiple_paths[node_rule(n)] /\ Len(rule_children[node_rule(n)]) = 0)
                 => last'.err = "IllegalTransition"
      ]_vars

\* a node at capacity was offered a rule that is not a declared child
C32_Witness ==
    /\ last.op = "add_child_rule"
    /\ last.err = "ArityExceeded"
    /\ ~Declared(last.node, last.ret)
    /\ ~HasChildOfRule(last.node, last.ret)

\* C33: an add_child_rule or connect_child that is rejected for arity, for a
\* duplicate or for an illegal transition leaves the flow's graph as it was:
\* no Node or payload row is created, no edge row is added, and no id of the
\* Node table is used up.
C33_RejectedEditChangesNothing ==
    [][(/\ last'.op \in {"add_child_rule", "connect_child"}
        /\ last'.err \in {"ArityExceeded", "DuplicateChild", "IllegalTransition"})
          => UNCHANGED <<tableVars, nextId>>
      ]_vars

\* a connect_child was rejected on a flow graph that has edges to lose
C33_Witness ==
    /\ last.op = "connect_child"
    /\ last.err \in {"ArityExceeded", "DuplicateChild", "IllegalTransition"}
    /\ Cardinality(nodes) >= 3
    /\ children # {}

\* ------------------------------------------------------------------------
\* Claims on callbacks that raise (SpecCallbacks)

\* C34: what a callback raises during next_state reaches the caller and the
\* cursor does not move: the call ends there, no table is written and the
\* State still stands on the node every callback of the call found it on;
\* when on_leave of the current rule raises no on_enter was called, and when
\* on_enter of the target rule raises on_leave of the current rule has fired.
C34_FailedCallbackKeepsCursor ==
    [][(last'.op = "next_state" /\ last'.err = "CallbackFailed") =>
        LET s == last'.node
            source == seen'[1].current_node
        IN /\ pc' = Idle
           /\ UNCHANGED tableVars
           /\ states'[s].current_node = source
           /\ \A i \in 1..Len(seen') : seen'[i].current_node = source
           /\ last'.ret = "on_leave" =>
                 /\ Len(seen') = 1
                 /\ seen'[1].ev = "on_leave raised"
                 /\ seen'[1].rule = node_rule(source)
                 /\ UNCHANGED <<done_enter, done_leave>>
           /\ last'.ret = "on_enter" =>
                 /\ Len(seen') = 2
                 /\ seen'[1].ev = "on_leave"
                 /\ seen'[1].rule = node_rule(source)
                 /\ seen'[2].ev = "on_enter raised"
                 /\ <<source, pc.next_node>> \in children
                 /\ seen'[2].rule = node_rule(pc.next_node)
                 /\ done_leave'[Len(done_leave')] = Fired(s, node_rule(source))
                 /\ UNCHANGED done_enter
      ]_vars

\* on_enter of the target rule raised after on_leave of a multipath source
C34_Witness ==
    /\ last.op = "next_state"
    /\ last.err = "CallbackFailed"
    /\ last.ret = "on_enter"
    /\ Len(seen) = 2
    /\ multiple_paths[seen[1].rule]
    /\ states[last.node].current_node = seen[1].current_node

\* ------------------------------------------------------------------------
\* Claims on add_child (SpecAddChild, SpecTwoGraphs)

\* C35: add_child is all-or-nothing: when the creation of the new child's
\* payload fails the tables are as they were before the call, and no Node is
\* left that has no payload, no parent and cannot be reached from the root.
C35_AddChildAllOrNothing ==
    [][(last'.op = "add_child" /\ last'.err # "") =>
          /\ UNCHANGED tableVars
          /\ \A n \in nodes' : data'[n].node # NULL
          /\ RootConnected'
      ]_vars

\* C36: a successful add_child on node P adds exactly one new node to P's
\* graph, with one payload row of its own, P as its only parent and no
\* children, and adds exactly the edge P -> new node; the other nodes, their
\* payloads and graphs, the other edges, the graphs and their roots are
\* unchanged.
C36_AddChildAddsOneLeaf ==
    [][(last'.op = "add_child" /\ last'.err = "") =>
        LET p == last'.node
            new == last'.ret
        IN /\ new \notin nodes
           /\ nodes' = nodes \cup {new}
           /\ graph'[new] = graph[p]
           /\ data'[new].node = new
           /\ {e \in parents' : e[1] = new} = {<<new, p>>}
           /\ {e \in children' : e[2] = new} = {<<p, new>>}
           /\ {e \in children' : e[1] = new} = {}
           /\ {e \in parents' : e[2] = new} = {}
           /\ children' = children \cup {<<p, new>>}
           /\ parents' = parents \cup {<<new, p>>}
           /\ \A m \in nodes : data'[m] = data[m] /\ graph'[m] = graph[m]
           /\ graphs' = graphs /\ root' = root
           /\ UNCHANGED <<flows, states>>
      ]_vars

\* a node was added under a non-root node of the second graph
C36_Witness ==
    /\ last.op = "add_child"
    /\ last.err = ""
    /\ graph[last.ret] = 2
    /\ ~is_root(last.node)
    /\ parents_all(last.ret) = {last.node}
    /\ children_all(last.ret) = {}
    /\ children # {<<last.node, last.ret>>}

\* ------------------------------------------------------------------------
\* Claims on remove (SpecGraph)

\* C37: a successful remove() of node N deletes N and every edge into or out
\* of N and nothing else: no surviving node has N among its parents or
\* children, and the other nodes, their graphs and payloads, and the edges
\* between them are unchanged.
C37_RemoveDeletesOnlyTheNode ==
    [][(last'.op = "remove" /\ last'.err = "") =>
        LET n == last'.node
        IN /\ nodes' = nodes \ {n}
           /\ children' = EdgesAmong(children, nodes')
           /\ parents' = EdgesAmong(parents, nodes')
           /\ \A m \in nodes' : data'[m] = data[m] /\ graph'[m] = graph[m]
      ]_vars

\* ------------------------------------------------------------------------
\* Claims on the traversals (SpecWalkFair)

\* the traversal of the steps returns what the recursive definition computes
WalkAgrees ==
    (last.op \in WalkOps /\ last.err = "") =>
        last.ret = CASE last.op = "ancestors" -> ancestors(last.node)
                     [] last.op = "ancestors_root" -> ancestors_root(last.node)
                     [] last.op = "descendents" -> descendents(last.node)
                     [] last.op = "descendents_root" -> descendents_root(last.node)
                     [] last.op = "can_remove" -> can_remove(last.node)
                     [] last.op = "prune_list" -> prune_list(last.node)

\* C38: ancestors, ancestors_root, descendents, descendents_root, can_remove
\* and prune_list terminate on every finite graph, self-loops, cycles among
\* non-root nodes and edges back to the root included: a traversal that has
\* started returns.
C38_TraversalsTerminate == (pc.phase = "depth") ~> (pc.phase = "idle")

\* a traversal from a non-root node over a cycle of non-root nodes and an
\* edge back to the root has returned
C38_Witness ==
    /\ last.op \in {"descendents", "descendents_root", "ancestors", "prune_list"}
    /\ last.err = ""
    /\ last.node # 1
    /\ \E n \in nodes : n # 1 /\ <<n, 1>> \in children
    /\ \E n, m \in nodes \ {1} : n # m /\ <<n, m>> \in children /\ <<m, n>> \in children

\* ------------------------------------------------------------------------
\* Claims on the cursor of a State (SpecFlow)

\* the State s stands on a node of its flow's graph that the root reaches
OnOwnGraph(s) ==
    LET n == states[s].current_node
        g == flows[states[s].flow]
    IN n \in nodes /\ graph[n] = g /\ n \in Closure({root[g]})

\* C39: after State.start and any sequence of next_state calls on a Flow
\* that is not edited meanwhile, the State's current node is a node of its
\* own Flow's graph and is reachable from that graph's root: every step that
\* creates a State or writes a cursor leaves every State on such a node. A
\* successful next_state moves the cursor of its State, and of no other,
\* along one existing child edge of the previous current node.
C39_CursorStaysOnGraph ==
    [][/\ (~edited' /\ states' # states) =>
              \A s \in StateIds : states'[s].flow # NULL => OnOwnGraph(s)'
       /\ (~edited' /\ last'.op = "next_state" /\ last'.err = "") =>
              /\ <<states[last'.node].current_node,
                   states'[last'.node].current_node>> \in children
              /\ states'[last'.node].current_node = last'.ret
              /\ \A s \in StateIds \ {last'.node} : states'[s] = states[s]
              /\ children' = children
      ]_vars

\* a State of an unedited flow has moved twice and stands off the root
C39_Witness ==
    /\ last.op = "next_state"
    /\ last.err = ""
    /\ ~edited
    /\ Len(done_leave) >= 2
    /\ ~is_root(states[last.node].current_node)
    /\ OnOwnGraph(last.node)

\* the children of node n that carry rule r
KidsOfRule(n, r) == {c \in children_all(n) : node_rule(c) = r}

\* the node reached from n by entering the rules of the sequence in turn
RECURSIVE Follow(_, _)
Follow(n, entered) ==
    IF entered = <<>> THEN n
    ELSE IF KidsOfRule(n, Head(entered)) = {} THEN NULL
    ELSE Follow(CHOOSE c \in KidsOfRule(n, Head(entered)) : TRUE, Tail(entered))

\* C40: next_state is deterministic on flow graphs built with add_child_rule
\* and connect_child: at most one child of a node carries a given rule, so a
\* next_state that does not fail has exactly one node to move to from the
\* current node under a given choice, and the node a State stands on is the
\* one the rules it entered lead to from the root, the same for every run
\* that enters the same rules.
C40_NextStateDeterministic ==
    /\ \A n \in nodes, r \in Rules : Cardinality(KidsOfRule(n, r)) <= 1
    /\ \A s \in StateIds : states[s].flow # NULL =>
          /\ \A r \in Rules \cup {NoChoice} :
                next_state_error(s, r) = "" => Cardinality(next_nodes(s, r)) = 1
          /\ (pc.phase = "idle" \/ pc.state # s) =>
                states[s].current_node =
                    Follow(root[flows[states[s].flow]], Tail(RulesFired(done_enter, s)))

\* a State chose between the two children of a multipath node and moved on
C40_Witness ==
    /\ last.op = "next_state"
    /\ last.err = ""
    /\ \E n \in nodes : /\ Cardinality(children_all(n)) = 2
                        /\ last.ret \in children_all(n)
                        /\ Len(RulesFired(done_enter, last.node)) >= 3
    /\ states[last.node].current_node = last.ret

====
